---- MODULE Spec2Model ----
(***************************************************************************)
(* License lifecycle manager of the cafe POS desktop shell:                *)
(* LicenseHandler (src/src/main/license-handler.ts) and the IPC handlers   *)
(* that call it (src/unnamed/part_000).                                    *)
(*                                                                         *)
(* Time is counted in hours.  One action is one synchronous run of         *)
(* JavaScript between two suspension points (an await on an axios call).   *)
(***************************************************************************)
EXTENDS Integers, FiniteSets, Sequences, TLC

(***************************************************************************)
(* Bounds of the model.                                                    *)
(***************************************************************************)
\* Number of renderer-side callers that may have an IPC license call pending.
NCallers == 1

(***************************************************************************)
(* Program constants.                                                      *)
(***************************************************************************)
\* license-handler.ts:206  if (hoursSinceVerification < 72)
GRACE_HOURS == 72
\* license-handler.ts:281  setInterval(..., 24 * 60 * 60 * 1000)
VERIFY_INTERVAL_HOURS == 24

\* Messages returned by the handler.
MSG_NO_LICENSE == "No license found"
MSG_HARDWARE == "License is bound to different hardware"
MSG_EXPIRED == "License has expired"
MSG_VALID == "License is valid"
MSG_VERIFY_FAILED == "License verification failed"
MSG_INVALID == "Invalid license"
MSG_OFFLINE == "License valid (offline mode)"
MSG_RECONNECT == "Unable to verify license. Please connect to the internet."
MSG_ACTIVATED == "License activated successfully"
MSG_ACTIVATION_FAILED == "Activation failed"
MSG_NO_CONNECTION == "Unable to connect to license server. Please check your internet connection."
MSG_DEACTIVATED == "License deactivated"
MSG_THROWN == "TypeError"

(***************************************************************************)
(* Value universes.                                                        *)
(***************************************************************************)
\* The instants the clock is observed at: start-up, the firings of the
\* periodic timer, and the hours around the end of the offline grace period.
Times ==
    {0, VERIFY_INTERVAL_HOURS, 2 * VERIFY_INTERVAL_HOURS,
     GRACE_HOURS - 1, GRACE_HOURS, GRACE_HOURS + 1}

\* The timer callback is process 0, the IPC callers are 1..NCallers.
TimerProc == 0
Callers == 1 .. NCallers
Procs == {TimerProc} \cup Callers

Keys == {"ABC-123", "XYZ-789"}
Features == {"export", "reports", ""}

\* new Date().toISOString() and new Date(string): a timestamp is stored as text.
toISOString(t) == [iso |-> t]
ParseDate(s) == s.iso

\* What the authority may hold for a key (LicenseInfo, lines 12-22): a short
\* plan without features and a long plan with the export feature.
EXPIRES_SOON == 2 * VERIFY_INTERVAL_HOURS
EXPIRES_LATE == 10 * GRACE_HOURS
InfosFor(k) ==
    {[license_key |-> k, features |-> {}, expires_at |-> toISOString(EXPIRES_SOON)],
     [license_key |-> k, features |-> {"export"}, expires_at |-> toISOString(EXPIRES_LATE)]}
NoInfo == [license_key |-> "-"]

\* Host configurations (os.cpus, os.hostname, os.networkInterfaces): the
\* host the application runs on, and another host a license file may come from.
ThisMachine ==
    [cpuModel |-> "cpuA", hostname |-> "pos-1",
     nets |-> <<[internal |-> TRUE, mac |-> "00:00:00:00:00:00"],
                [internal |-> FALSE, mac |-> "00:00:00:00:00:00"],
                [internal |-> FALSE, mac |-> "aa:aa"],
                [internal |-> FALSE, mac |-> "bb:bb"]>>]
OtherMachine ==
    [cpuModel |-> "cpuA", hostname |-> "pos-1",
     nets |-> <<[internal |-> FALSE, mac |-> "bb:bb"],
                [internal |-> FALSE, mac |-> "aa:aa"]>>]
Machines == {ThisMachine, OtherMachine}

(***************************************************************************)
(* Hardware identifier (lines 42-66).                                      *)
(***************************************************************************)
RECURSIVE FirstMac(_)
FirstMac(nets) ==
    IF nets = <<>> THEN ""
    ELSE IF ~Head(nets).internal /\ Head(nets).mac # "00:00:00:00:00:00"
         THEN Head(nets).mac
         ELSE FirstMac(Tail(nets))

getHardwareId(m) ==
    [sha256 |-> <<m.cpuModel, m.hostname, FirstMac(m.nets)>>]

(***************************************************************************)
(* License store (lines 292-331).                                          *)
(***************************************************************************)
Null == [tag |-> "null"]
NoFile == [tag |-> "absent"]
\* A file that is not the output of encrypt: decipher.final throws on it.
Garbage == [tag |-> "hex", padded |-> FALSE]

\* What fs.writeFileSync leaves when the process dies while it writes: the
\* file was truncated on open and holds a prefix of the new ciphertext.
Torn == [tag |-> "hex", padded |-> FALSE, torn |-> TRUE]

JSONstringify(v) == [json |-> v]
JSONparse(text) == text.json

encrypt(text) == [tag |-> "hex", padded |-> TRUE, aes256cbc |-> text]
DecryptThrows(blob) == ~blob.padded
decrypt(blob) == blob.aes256cbc

\* A save that does not reach the disk.
saveStoredLicense_Skipped(stored, f) == f

\* saveStoredLicense: the file written for the in-memory record.
saveStoredLicense(stored, f) ==
    IF stored = Null THEN f ELSE encrypt(JSONstringify(stored))

\* A load whose catch block leaves an empty record instead of null.
loadStoredLicense_EmptyOnError(f) ==
    IF f = NoFile THEN Null
    ELSE IF DecryptThrows(f)
         THEN [tag |-> "rec", key |-> "", hardwareId |-> [sha256 |-> <<>>],
               licenseInfo |-> [license_key |-> "", features |-> {},
                                expires_at |-> toISOString(0)],
               lastVerified |-> toISOString(0), activatedAt |-> toISOString(0)]
    ELSE JSONparse(decrypt(f))

\* loadStoredLicense: the in-memory record after construction over file f.
loadStoredLicense(f) ==
    IF f = NoFile THEN Null
    ELSE IF DecryptThrows(f) THEN Null
    ELSE JSONparse(decrypt(f))

\* A deactivation that forgets to delete the file.
unlink_Keeps(f) == f

\* fs.existsSync + fs.unlinkSync.
unlink(f) == NoFile

\* A feature check that takes the empty name for "no feature required".
hasFeature_EmptyName(stored, feature) ==
    IF feature = "" THEN TRUE
    ELSE IF stored = Null THEN FALSE ELSE feature \in stored.licenseInfo.features

\* hasFeature (lines 254-256).
hasFeature(stored, feature) ==
    IF stored = Null THEN FALSE ELSE feature \in stored.licenseInfo.features

\* getLicenseInfo (lines 259-267): null, or the info with the two timestamps.
getLicenseInfo(stored) ==
    IF stored = Null THEN NoInfo
    ELSE [license_key |-> stored.licenseInfo.license_key,
          features |-> stored.licenseInfo.features,
          expires_at |-> stored.licenseInfo.expires_at,
          lastVerified |-> stored.lastVerified,
          activatedAt |-> stored.activatedAt]

\* lines 170-171: the record after a successful verification.
VerifiedRecord(stored, info, t) ==
    [stored EXCEPT !.licenseInfo = info, !.lastVerified = toISOString(t)]

\* A success branch that builds the record anew from the answer, as
\* this.storedLicense = {...this.storedLicense, licenseInfo, lastVerified}.
VerifySuccess_CreatesRecord(stored, info, t) ==
    IF stored = Null
    THEN [threw |-> FALSE,
          record |-> [tag |-> "rec", key |-> "", hardwareId |-> [sha256 |-> <<>>],
                      licenseInfo |-> info, lastVerified |-> toISOString(t),
                      activatedAt |-> toISOString(t)]]
    ELSE [threw |-> FALSE, record |-> VerifiedRecord(stored, info, t)]

\* lines 168-171: assigning a field of a null storedLicense throws a
\* TypeError and leaves it null; otherwise the record is refreshed.
VerifySuccess(stored, info, t) ==
    IF stored = Null
    THEN [threw |-> TRUE, record |-> stored]
    ELSE [threw |-> FALSE, record |-> VerifiedRecord(stored, info, t)]

\* lines 97-103: the record a successful activation stores.
NewRecord_StaleStamp(k, hw, info, t) ==
    [tag |-> "rec", key |-> k, hardwareId |-> hw, licenseInfo |-> info,
     lastVerified |-> toISOString(0), activatedAt |-> toISOString(t)]

NewRecord(k, hw, info, t) ==
    [tag |-> "rec", key |-> k, hardwareId |-> hw, licenseInfo |-> info,
     lastVerified |-> toISOString(t), activatedAt |-> toISOString(t)]

(***************************************************************************)
(* State.                                                                  *)
(***************************************************************************)
VARIABLES
    now,                  \* the wall clock, in hours
    machine,              \* the host the application runs on
    storedLicense,        \* LicenseHandler.storedLicense
    file,                 \* contents of LICENSE_FILE
    verificationInterval, \* LicenseHandler.verificationInterval
    call,                 \* per process: the license call suspended on the network
    ret                   \* the result of the call that completed in the last step

vars == <<now, machine, storedLicense, file, verificationInterval, call, ret>>

Idle == [pc |-> "idle"]
NoTimer == [tag |-> "null"]

\* The result a call completed with.  response is what axios delivered
\* ("local" when the call returned without a request), threw tells that
\* the returned promise rejected instead of resolving.
Result(op, silent, response, threw, valid, message, info) ==
    [op |-> op, silent |-> silent, response |-> response, threw |-> threw,
     valid |-> valid, message |-> message, info |-> info]
\* No response: the call returned without a request.
Local == [kind |-> "local", status |-> 0, code |-> "", message |-> "", data |-> NoInfo]
NoRet == Result("none", FALSE, Local, FALSE, FALSE, "", NoInfo)

\* a || b on strings: the empty (or missing) string is falsy.
OrElse(a, b) == IF a = "" THEN b ELSE a

(***************************************************************************)
(* What axios delivers for a request (lines 87-93, 160-166, 232-237).      *)
(***************************************************************************)
\* license-handler.ts:194  error.response?.status === 404
HTTP_NOT_FOUND == 404
\* another error status (403 Forbidden)
HTTP_FORBIDDEN == HTTP_NOT_FOUND - 1
ServerMessages == {"", "License revoked"}

\* 2xx with {success: true, data}
Success(info) == [kind |-> "success", status |-> 200, code |-> "", message |-> "", data |-> info]
\* 2xx with {success: false, message}
Declined(m) == [kind |-> "declined", status |-> 200, code |-> "", message |-> m, data |-> NoInfo]
\* non-2xx answer: axios throws an error that carries the response
HttpError(st, c, m) == [kind |-> "http", status |-> st, code |-> c, message |-> m, data |-> NoInfo]
\* timeout, DNS or connection failure: axios throws an error without response
NoResponse == [kind |-> "noresponse", status |-> 0, code |-> "", message |-> "", data |-> NoInfo]
\* 2xx whose body is JSON null: response.data.success throws a TypeError
NullBody == [kind |-> "nullbody", status |-> 200, code |-> "", message |-> "", data |-> NoInfo]

Failures ==
    {Declined(m) : m \in ServerMessages}
    \cup {HttpError(HTTP_NOT_FOUND, "INVALID", m) : m \in ServerMessages}
    \cup {HttpError(HTTP_NOT_FOUND, "NOT_FOUND", "License revoked"),
          HttpError(HTTP_FORBIDDEN, "INVALID", "License revoked")}
    \cup {NoResponse, NullBody}

Outcomes(k) == {Success(i) : i \in InfosFor(k)} \cup Failures

\* The answer to a deactivate request is ignored (lines 230-241).
DeactivateOutcomes ==
    {Success(NoInfo), HttpError(HTTP_NOT_FOUND, "INVALID", "License revoked"), NoResponse}

\* The requests that are awaiting their response.
Requests ==
    {[from |-> p, endpoint |-> call[p].endpoint, license_key |-> call[p].key,
      hardware_id |-> call[p].hardwareId] : p \in {q \in Procs : call[q].pc # "idle"}}

\* A call suspended on a request; response is the verify response a
\* deactivation inside verifyLicense was started for, expiresAt the expiry
\* date of the record verifyLicense was invoked on (0 for the other calls).
Await(pc, endpoint, k, hw, silent, response, expiresAt) ==
    [pc |-> pc, endpoint |-> endpoint, key |-> k, hardwareId |-> hw,
     silent |-> silent, response |-> response, expiresAt |-> expiresAt]

(***************************************************************************)
(* Construction (lines 36-39) over the file a previous run may have left.  *)
(***************************************************************************)
InitialFiles ==
    {NoFile, Garbage}
    \cup {encrypt(JSONstringify(NewRecord(k, getHardwareId(m), i, 0))) :
            k \in {"ABC-123"}, m \in Machines, i \in InfosFor("ABC-123")}

\* startPeriodicVerification (lines 276-282): the timer set at time t.
startPeriodicVerification(t) == [tag |-> "timer", due |-> t + VERIFY_INTERVAL_HOURS]

Init ==
    /\ now = 0
    /\ machine = ThisMachine
    /\ file \in InitialFiles
    /\ storedLicense = loadStoredLicense(file)
    /\ verificationInterval = startPeriodicVerification(now)
    /\ call = [p \in Procs |-> Idle]
    /\ ret = NoRet

\* The application is closed and started again: the calls and the timer of
\* the old process are gone, a new LicenseHandler is constructed over the file.
Restart ==
    /\ storedLicense' = loadStoredLicense(file)
    /\ verificationInterval' = startPeriodicVerification(now)
    /\ call' = [p \in Procs |-> Idle]
    /\ ret' = NoRet
    /\ UNCHANGED <<now, machine, file>>

\* The process dies inside fs.writeFileSync (line 297) while it saves the
\* record of a successful activation or verification; the application is
\* started again over what the write left.
CrashInSave(p) ==
    /\ \/ call[p].pc = "activate"
       \/ call[p].pc = "verify" /\ storedLicense # Null
    /\ file' = Torn
    /\ storedLicense' = loadStoredLicense(file')
    /\ verificationInterval' = startPeriodicVerification(now)
    /\ call' = [q \in Procs |-> Idle]
    /\ ret' = NoRet
    /\ UNCHANGED <<now, machine>>

(***************************************************************************)
(* activateLicense (lines 78-133).                                         *)
(***************************************************************************)
ActivateLicense(p, k) ==
    /\ p \in Callers
    /\ call[p].pc = "idle"
    /\ call' = [call EXCEPT ![p] =
                  Await("activate", "activate", k, getHardwareId(machine), FALSE, Local, 0)]
    /\ ret' = NoRet
    /\ UNCHANGED <<now, machine, storedLicense, file, verificationInterval>>

\* A declined activation is stored like a successful one.
ActivationSucceeded_Declined(o) == o.kind \in {"success", "declined"}

\* line 95: if (response.data.success).
ActivationSucceeded(o) == o.kind = "success"

\* The result of a failed activation (lines 114-131).
ActivateFailure(o) ==
    IF o.kind = "declined"
    THEN Result("activate", FALSE, o, FALSE, FALSE,
                OrElse(o.message, MSG_ACTIVATION_FAILED), NoInfo)
    ELSE IF o.kind = "http"
    THEN Result("activate", FALSE, o, FALSE, FALSE,
                OrElse(o.message, MSG_ACTIVATION_FAILED), NoInfo)
    ELSE Result("activate", FALSE, o, FALSE, FALSE, MSG_NO_CONNECTION, NoInfo)

ActivateResponse(p, o) ==
    /\ call[p].pc = "activate"
    /\ o \in Outcomes(call[p].key)
    /\ IF ActivationSucceeded(o)
       THEN /\ storedLicense' = NewRecord(call[p].key, call[p].hardwareId, o.data, now)
            /\ file' = saveStoredLicense(storedLicense', file)
            /\ ret' = Result("activate", FALSE, o, FALSE, TRUE, MSG_ACTIVATED, o.data)
       ELSE /\ ret' = ActivateFailure(o)
            /\ UNCHANGED <<storedLicense, file>>
    /\ call' = [call EXCEPT ![p] = Idle]
    /\ UNCHANGED <<now, machine, verificationInterval>>

(***************************************************************************)
(* verifyLicense (lines 136-219).                                          *)
(***************************************************************************)
\* The hardware binding is not checked.
HardwareMismatch_Unchecked(stored, m) == FALSE

\* line 148: the record is bound to another machine.
HardwareMismatch(stored, m) == stored.hardwareId # getHardwareId(m)

\* lines 153-154: expiryDate < new Date().
Expired(stored, t) == ParseDate(stored.licenseInfo.expires_at) < t

\* line 203: hours between lastVerified and Date.now().
hoursSinceVerification(stored, t) == t - ParseDate(stored.lastVerified)

\* The grace period includes its last instant.
WithinGrace_Inclusive(stored, t) == hoursSinceVerification(stored, t) <= GRACE_HOURS

\* line 206: the offline grace period still runs.
WithinGrace(stored, t) == hoursSinceVerification(stored, t) < GRACE_HOURS

\* A TypeError that leaves verifyLicense: the promise rejects.
VerifyThrows(silent, o) ==
    Result("verify", silent, o, TRUE, FALSE, MSG_THROWN, NoInfo)

\* The distinguished answer is not recognised.
IsInvalidKey_Never(o) == FALSE

\* line 194: the distinguished answer of the authority.
IsInvalidKey(o) ==
    o.kind = "http" /\ o.status = HTTP_NOT_FOUND /\ o.code = "INVALID"

\* lines 201-217: the cached record decides.  Reading lastVerified of a
\* record that is gone throws inside the catch block.
OfflineResult(stored, t, silent, o) ==
    IF stored = Null THEN VerifyThrows(silent, o)
    ELSE IF WithinGrace(stored, t)
    THEN Result("verify", silent, o, FALSE, TRUE, MSG_OFFLINE, stored.licenseInfo)
    ELSE Result("verify", silent, o, FALSE, FALSE, MSG_RECONNECT, NoInfo)

\* lines 190-218: the catch block, entered with the error axios threw or
\* with a TypeError raised in the try block (which has no response).
VerifyCatch(stored, t, silent, o) ==
    IF IsInvalidKey(o)
    THEN Result("verify", silent, o, FALSE, FALSE, OrElse(o.message, MSG_INVALID), NoInfo)
    ELSE OfflineResult(stored, t, silent, o)

\* A catch block that counts a failed attempt as a contact with the authority.
CaughtRecord_RenewsGrace(stored, t) ==
    IF stored = Null THEN stored ELSE [stored EXCEPT !.lastVerified = toISOString(t)]

\* lines 190-218 assign no field: the record the catch block leaves.
CaughtRecord(stored, t) == stored

\* lines 186-189: the result after a declined verification.
VerifyDeclined(silent, o) ==
    Result("verify", silent, o, FALSE, FALSE, OrElse(o.message, MSG_VERIFY_FAILED), NoInfo)

\* A declined verification deactivates whoever asked.
DeactivatesOnDecline_Always(silent) == TRUE

\* line 182: a declined verification deactivates unless it is silent.
DeactivatesOnDecline(silent) == ~silent

\* lines 141-166: the local checks, then the request.
VerifyLicense(p, silent) ==
    /\ call[p].pc = "idle"
    /\ IF storedLicense = Null
       THEN /\ ret' = Result("verify", silent, Local, FALSE, FALSE, MSG_NO_LICENSE, NoInfo)
            /\ UNCHANGED call
       ELSE IF HardwareMismatch(storedLicense, machine)
       THEN /\ ret' = Result("verify", silent, Local, FALSE, FALSE, MSG_HARDWARE, NoInfo)
            /\ UNCHANGED call
       ELSE IF Expired(storedLicense, now)
       THEN /\ ret' = Result("verify", silent, Local, FALSE, FALSE, MSG_EXPIRED, NoInfo)
            /\ UNCHANGED call
       ELSE /\ call' = [call EXCEPT ![p] =
                          Await("verify", "verify", storedLicense.key,
                                getHardwareId(machine), silent, Local,
                                ParseDate(storedLicense.licenseInfo.expires_at))]
            /\ ret' = NoRet
    /\ UNCHANGED <<now, machine, storedLicense, file>>

\* lines 168-218: the answer to the verify request arrives.
VerifyResponse(p, o) ==
    /\ call[p].pc = "verify"
    /\ o \in Outcomes(call[p].key)
    /\ LET silent == call[p].silent IN
       IF o.kind = "success"
       THEN IF VerifySuccess(storedLicense, o.data, now).threw
            THEN \* line 170 throws, the catch block throws again at line 202
                 /\ ret' = VerifyCatch(storedLicense, now, silent, o)
                 /\ call' = [call EXCEPT ![p] = Idle]
                 /\ UNCHANGED <<storedLicense, file>>
            ELSE /\ storedLicense' = VerifySuccess(storedLicense, o.data, now).record
                 /\ file' = saveStoredLicense(storedLicense', file)
                 /\ ret' = Result("verify", silent, o, FALSE, TRUE, MSG_VALID, o.data)
                 /\ call' = [call EXCEPT ![p] = Idle]
       ELSE IF o.kind = "declined"
       THEN IF DeactivatesOnDecline(silent) /\ storedLicense # Null
            THEN \* line 183: deactivateLicense sends its notification
                 /\ call' = [call EXCEPT ![p] =
                               Await("verify_deactivate", "deactivate", storedLicense.key,
                                     getHardwareId(machine), silent, o,
                                     call[p].expiresAt)]
                 /\ ret' = NoRet
                 /\ UNCHANGED <<storedLicense, file>>
            ELSE /\ ret' = VerifyDeclined(silent, o)
                 /\ call' = [call EXCEPT ![p] = Idle]
                 /\ UNCHANGED <<storedLicense, file>>
       ELSE /\ ret' = VerifyCatch(storedLicense, now, silent, o)
            /\ call' = [call EXCEPT ![p] = Idle]
            /\ storedLicense' = CaughtRecord(storedLicense, now)
            /\ UNCHANGED file
    /\ UNCHANGED <<now, machine, verificationInterval>>

\* lines 243-250 reached from line 183, then lines 186-189.
VerifyDeactivateResponse(p, o) ==
    /\ call[p].pc = "verify_deactivate"
    /\ o \in DeactivateOutcomes
    /\ storedLicense' = Null
    /\ file' = unlink(file)
    /\ ret' = VerifyDeclined(call[p].silent, call[p].response)
    /\ call' = [call EXCEPT ![p] = Idle]
    /\ UNCHANGED <<now, machine, verificationInterval>>

\* ipcMain.handle('validate-license') and the start-up check.
ValidateLicense(p) ==
    /\ p \in Callers
    /\ VerifyLicense(p, FALSE)
    /\ UNCHANGED verificationInterval

(***************************************************************************)
(* deactivateLicense (lines 222-251).                                      *)
(***************************************************************************)
DeactivateLicense(p) ==
    /\ p \in Callers
    /\ call[p].pc = "idle"
    /\ IF storedLicense = Null
       THEN /\ ret' = Result("deactivate", FALSE, Local, FALSE, FALSE, MSG_NO_LICENSE, NoInfo)
            /\ UNCHANGED call
       ELSE /\ call' = [call EXCEPT ![p] =
                          Await("deactivate", "deactivate", storedLicense.key,
                                getHardwareId(machine), FALSE, Local, 0)]
            /\ ret' = NoRet
    /\ UNCHANGED <<now, machine, storedLicense, file, verificationInterval>>

DeactivateResponse(p, o) ==
    /\ call[p].pc = "deactivate"
    /\ o \in DeactivateOutcomes
    /\ storedLicense' = Null
    /\ file' = unlink(file)
    /\ ret' = Result("deactivate", FALSE, o, FALSE, TRUE, MSG_DEACTIVATED, NoInfo)
    /\ call' = [call EXCEPT ![p] = Idle]
    /\ UNCHANGED <<now, machine, verificationInterval>>

(***************************************************************************)
(* hasFeature and getLicenseInfo through their IPC handlers                *)
(* (part_000 lines 228-230, 238-240).                                      *)
(***************************************************************************)
HasFeature(f) ==
    /\ ret' = Result("hasFeature", FALSE, Local, FALSE, hasFeature(storedLicense, f), f, NoInfo)
    /\ UNCHANGED <<now, machine, storedLicense, file, verificationInterval, call>>

GetLicenseInfo ==
    /\ ret' = Result("getLicenseInfo", FALSE, Local, FALSE, storedLicense # Null, "",
                     getLicenseInfo(storedLicense))
    /\ UNCHANGED <<now, machine, storedLicense, file, verificationInterval, call>>

(***************************************************************************)
(* Periodic verification (lines 275-290) and the clock.                    *)
(***************************************************************************)
\* An interval callback that calls verifyLicense() without the silent flag.
PeriodicVerification_Loud ==
    /\ verificationInterval # NoTimer
    /\ now = verificationInterval.due
    /\ VerifyLicense(TimerProc, FALSE)
    /\ verificationInterval' =
         [verificationInterval EXCEPT !.due = @ + VERIFY_INTERVAL_HOURS]

\* The interval callback: verifyLicense(true), once per interval.
PeriodicVerification ==
    /\ verificationInterval # NoTimer
    /\ now = verificationInterval.due
    /\ VerifyLicense(TimerProc, TRUE)
    /\ verificationInterval' =
         [verificationInterval EXCEPT !.due = @ + VERIFY_INTERVAL_HOURS]

stopPeriodicVerification ==
    /\ verificationInterval # NoTimer
    /\ verificationInterval' = NoTimer
    /\ ret' = NoRet
    /\ UNCHANGED <<now, machine, storedLicense, file, call>>

\* Time passes; a pending timer fires when it is due.  A request is answered
\* or times out within 10 seconds (lines 92, 165, 236), far below the hour the
\* clock counts in: the clock shows the same hour on both sides of an await.
Tick(t) ==
    /\ t \in Times
    /\ t > now
    /\ \A p \in Procs : call[p].pc = "idle"
    /\ verificationInterval # NoTimer => t <= verificationInterval.due
    /\ now' = t
    /\ ret' = NoRet
    /\ UNCHANGED <<machine, storedLicense, file, verificationInterval, call>>

Next ==
    \/ \E p \in Callers, k \in Keys : ActivateLicense(p, k)
    \/ \E p \in Procs, o \in Failures \cup UNION {Outcomes(k) : k \in Keys} :
          ActivateResponse(p, o)
    \/ \E p \in Callers : ValidateLicense(p)
    \/ \E p \in Procs, o \in Failures \cup UNION {Outcomes(k) : k \in Keys} :
          VerifyResponse(p, o)
    \/ \E p \in Procs, o \in DeactivateOutcomes : VerifyDeactivateResponse(p, o)
    \/ \E p \in Callers : DeactivateLicense(p)
    \/ \E p \in Procs, o \in DeactivateOutcomes : DeactivateResponse(p, o)
    \/ PeriodicVerification
    \/ stopPeriodicVerification
    \/ \E t \in Times : Tick(t)
    \/ Restart
    \/ \E p \in Procs : CrashInSave(p)

Spec == Init /\ [][Next]_vars

\* The same program with the renderer's read-only queries interleaved.
NextQueries ==
    \/ Next
    \/ \E f \in Features : HasFeature(f)
    \/ GetLicenseInfo

SpecQueries == Init /\ [][NextQueries]_vars

(***************************************************************************)
(* Properties.                                                             *)
(***************************************************************************)

\* C1: verifyLicense on a record bound to other hardware returns invalid
\* with the hardware-mismatch message, silent or not, whatever the clock, the
\* expiry date and the cached info are, and sends no verify request.
C1_HardwareMismatchIsTerminal ==
    [][(storedLicense # Null /\ storedLicense.hardwareId # getHardwareId(machine)) =>
          /\ \A p \in Procs : call[p].pc = "idle" => call'[p].pc # "verify"
          /\ {r \in Requests' : r.endpoint = "verify"} \subseteq Requests
          /\ (ret'.op = "verify" /\ ret'.response.kind = "local") =>
                /\ ~ret'.valid /\ ~ret'.threw
                /\ ret'.message = MSG_HARDWARE]_vars

\* C1 witness: a mismatch reported for a record that is also expired and
\* still inside the offline grace period.
C1_Witness ==
    /\ ret.op = "verify" /\ ret.message = MSG_HARDWARE
    /\ storedLicense # Null
    /\ storedLicense.hardwareId # getHardwareId(machine)
    /\ ParseDate(storedLicense.licenseInfo.expires_at) < now
    /\ now - ParseDate(storedLicense.lastVerified) < GRACE_HOURS

\* C2: a verifyLicense invoked at a time now >= expiresAt of the stored
\* record never returns valid, whatever the authority answers.
C2_NeverValidAtOrAfterExpiry ==
    [][/\ \A p \in Procs :
             (call[p].pc = "verify" /\ call'[p].pc = "idle" /\ now >= call[p].expiresAt)
                => ~ret'.valid
       /\ (/\ storedLicense # Null
           /\ now >= ParseDate(storedLicense.licenseInfo.expires_at)
           /\ ret'.op = "verify" /\ ret'.response.kind = "local") => ~ret'.valid]_vars

\* C3: with the authority unreachable, a record that passed the local checks
\* is valid with the cached info while less than 72 hours have passed since
\* lastVerified, and invalid with the reconnect message from 72 hours on.
C3_OfflineGraceBoundary ==
    [][(ret'.op = "verify" /\ ret'.response.kind = "noresponse" /\ storedLicense # Null) =>
          IF now - ParseDate(storedLicense.lastVerified) < GRACE_HOURS
          THEN /\ ret'.valid /\ ~ret'.threw
               /\ ret'.message = MSG_OFFLINE
               /\ ret'.info = storedLicense.licenseInfo
          ELSE /\ ~ret'.valid /\ ~ret'.threw
               /\ ret'.message = MSG_RECONNECT]_vars

\* C3 witness: exactly 72 hours after lastVerified the result is invalid.
C3_Witness ==
    /\ ret.op = "verify" /\ ret.response.kind = "noresponse"
    /\ ~ret.valid /\ ret.message = MSG_RECONNECT
    /\ storedLicense # Null
    /\ now - ParseDate(storedLicense.lastVerified) = GRACE_HOURS

\* C4: the offline-grace valid result is produced only when the authority
\* was unreachable; when the authority answered and declined, whatever the
\* HTTP status, verifyLicense returns invalid.
C4_GraceOnlyWhenUnreachable ==
    ret.op = "verify" =>
       /\ ret.message = MSG_OFFLINE => ret.response.kind = "noresponse"
       /\ ret.response.kind \in {"declined", "http"} => ~ret.valid

\* C5: after a verification the authority declined with success = false,
\* verifyLicense returns invalid; if it was not silent the record is gone from
\* memory and disk, if it was silent memory and disk are what they were.
C5_DeclinedDestroysUnlessSilent ==
    [][(ret'.op = "verify" /\ ret'.response.kind = "declined") =>
          /\ ~ret'.valid /\ ~ret'.threw
          /\ IF ret'.silent
             THEN UNCHANGED <<storedLicense, file>>
             ELSE storedLicense' = Null /\ file' = NoFile]_vars

\* C5 witness: a silent verification was declined and the record is kept.
C5_Witness ==
    /\ ret.op = "verify" /\ ret.response.kind = "declined"
    /\ ret.silent /\ ~ret.valid
    /\ storedLicense # Null /\ file # NoFile

\* C6: a 404 answer with code INVALID makes verifyLicense return invalid
\* with the server's message; no deactivate request is sent and the record
\* in memory and on disk is unchanged.
C6_InvalidKeyHasNoSideEffect ==
    [][(/\ ret'.op = "verify"
        /\ ret'.response.kind = "http"
        /\ ret'.response.status = HTTP_NOT_FOUND
        /\ ret'.response.code = "INVALID") =>
          /\ ~ret'.valid /\ ~ret'.threw
          /\ ret'.response.message # "" => ret'.message = ret'.response.message
          /\ Requests' \subseteq Requests
          /\ UNCHANGED <<storedLicense, file>>]_vars

\* C6 witness: a non-silent verification got the distinguished answer
\* inside the grace period and the record is still there.
C6_Witness ==
    /\ ret.op = "verify" /\ ~ret.silent
    /\ ret.response.status = HTTP_NOT_FOUND /\ ret.response.code = "INVALID"
    /\ ret.message = "License revoked"
    /\ storedLicense # Null /\ file # NoFile
    /\ now - ParseDate(storedLicense.lastVerified) < GRACE_HOURS

\* C7: when a deactivateLicense call has completed, it did not throw and
\* there is no record in memory and no license file.
C7_DeactivateLeavesNothing ==
    ret.op = "deactivate" =>
       /\ ~ret.threw
       /\ storedLicense = Null
       /\ file = NoFile

\* C8: a failed activateLicense returns invalid and leaves the record in
\* memory and on disk exactly as it was.
C8_FailedActivationCreatesNoRecord ==
    [][(ret'.op = "activate" /\ ret'.response.kind # "success") =>
          /\ ~ret'.valid /\ ~ret'.threw
          /\ UNCHANGED <<storedLicense, file>>]_vars

\* C8 witness: the authority was unreachable and the installation is
\* still unactivated.
C8_Witness ==
    /\ ret.op = "activate" /\ ret.response.kind = "noresponse"
    /\ ~ret.valid
    /\ storedLicense = Null /\ file = NoFile

\* C9: a successful activateLicense(key) returns valid and leaves, in
\* memory and on disk, the one record made of key, the machine fingerprint
\* and the returned info; hasFeature is then true exactly for the returned
\* features, and a verification issued right after it on a record that has
\* not expired is sent to the authority and is valid when the authority
\* accepts it.
C9_ActivationStoresRecord ==
    [][/\ \A p \in Procs :
             (call[p].pc = "activate" /\ call'[p].pc = "idle"
                 /\ ret'.response.kind = "success") =>
                /\ ret'.valid /\ ~ret'.threw
                /\ ret'.info = ret'.response.data
                /\ storedLicense' =
                      [tag |-> "rec", key |-> call[p].key,
                       hardwareId |-> getHardwareId(machine),
                       licenseInfo |-> ret'.response.data,
                       lastVerified |-> [iso |-> now],
                       activatedAt |-> [iso |-> now]]
                /\ file' # NoFile
                /\ loadStoredLicense(file') = storedLicense'
                /\ \A f \in Features :
                      hasFeature(storedLicense', f) <=> f \in ret'.response.data.features
       /\ (ret'.op = "activate" /\ ret'.valid) => ret'.response.kind = "success"
       /\ (/\ storedLicense # Null
           /\ storedLicense.activatedAt = [iso |-> now]
           /\ storedLicense.lastVerified = [iso |-> now]
           /\ storedLicense.hardwareId = getHardwareId(machine)
           /\ now < ParseDate(storedLicense.licenseInfo.expires_at)) =>
             ~(ret'.op = "verify" /\ ret'.response.kind = "local")
       /\ (ret'.op = "verify" /\ ret'.response.kind = "success" /\ storedLicense # Null) =>
             ret'.valid /\ ~ret'.threw]_vars

\* C9 witness: the second key was activated with the export feature.
C9_Witness ==
    /\ ret.op = "activate" /\ ret.valid
    /\ storedLicense # Null
    /\ storedLicense.key = "XYZ-789"
    /\ hasFeature(storedLicense, "export")
    /\ ~hasFeature(storedLicense, "reports")
    /\ loadStoredLicense(file) = storedLicense

\* C10: activateLicense, verifyLicense and deactivateLicense are serialized:
\* at most one of them is suspended on its network call.
C10_CallsAreSerialized ==
    Cardinality({p \in Procs : call[p].pc # "idle"}) <= 1

\* C11: while the record exists, its lastVerified timestamp never decreases
\* from one state to the next, whatever activation, verification (explicit
\* or periodic) or restart produced the next state; the record disappears
\* only where it is destroyed.
C11_LastVerifiedNeverDecreases ==
    [][(storedLicense # Null /\ storedLicense' # Null) =>
          ParseDate(storedLicense'.lastVerified) >= ParseDate(storedLicense.lastVerified)]_vars

\* C11 witness: a verification has moved lastVerified past the activation
\* time of the record.
C11_Witness ==
    /\ ret.op = "verify" /\ ret.response.kind = "success" /\ ret.valid
    /\ storedLicense # Null
    /\ ParseDate(storedLicense.lastVerified) = now
    /\ ParseDate(storedLicense.activatedAt) < now

\* C12: every completed activateLicense, verifyLicense and deactivateLicense
\* returns a result value; none of them ends by throwing or rejecting,
\* whatever the authority answered and whatever ran in between.
C12_NeverThrows ==
    ~ret.threw

\* C13: over a missing, corrupt or torn license file the manager holds no
\* record; a verifyLicense called then sends nothing and returns invalid
\* 'No license found' without throwing; and a successful activateLicense
\* replaces the unreadable file by one that the next start loads as the
\* record just activated.
C13_UnreadableFileIsUnactivated ==
    [][(file \in {NoFile, Garbage, Torn}) =>
          /\ storedLicense = Null
          /\ \A p \in Procs : ~(call[p].pc = "idle" /\ call'[p].pc = "verify")
          /\ (ret'.op = "verify" /\ ret'.response.kind = "local") =>
                /\ ~ret'.valid /\ ~ret'.threw
                /\ ret'.message = "No license found"
                /\ UNCHANGED <<storedLicense, file>>
          /\ \A p \in Procs :
                (call[p].pc = "activate" /\ call'[p].pc = "idle"
                    /\ ret'.response.kind = "success") =>
                   /\ ret'.valid
                   /\ storedLicense' # Null
                   /\ storedLicense'.key = call[p].key
                   /\ file' \notin {NoFile, Garbage, Torn}
                   /\ loadStoredLicense(file') = storedLicense']_vars

\* C13 witness: the application was started again over a torn file and
\* verifyLicense answered 'No license found'.
C13_Witness ==
    /\ file = Torn
    /\ storedLicense = Null
    /\ ret.op = "verify" /\ ~ret.valid /\ ~ret.threw
    /\ ret.message = MSG_NO_LICENSE

\* C14: while no record exists, hasFeature returns false for every feature
\* name, the empty name included, and getLicenseInfo returns nothing; neither
\* throws, and neither changes the in-memory record or the license file.
C14_QueriesWithoutRecord ==
    [][(storedLicense = Null) =>
          /\ (ret'.op = "hasFeature") =>
                /\ ~ret'.valid /\ ~ret'.threw
                /\ UNCHANGED <<storedLicense, file, call, verificationInterval>>
          /\ (ret'.op = "getLicenseInfo") =>
                /\ ret'.info = NoInfo /\ ~ret'.valid /\ ~ret'.threw
                /\ UNCHANGED <<storedLicense, file, call, verificationInterval>>]_vars

\* C14 witness: the empty feature name was asked for on an installation
\* without a record and the answer was false.
C14_Witness ==
    /\ storedLicense = Null
    /\ ret.op = "hasFeature" /\ ret.message = "" /\ ~ret.valid

\* C15: a timer exists from construction on, first due 24 hours later; the
\* timer's verifications start only at the instant the timer is due, each
\* one silent, each one moving the due time on by 24 hours; the timer runs
\* nothing but silent verifications; once stopPeriodicVerification has put
\* null in the timer field no periodic verification starts any more, and
\* the field stays null until a manager is constructed again.
C15_PeriodicVerificationEvery24h ==
    [][/\ ((call[TimerProc].pc = "idle" /\ call'[TimerProc].pc # "idle")
              \/ (ret'.op = "verify" /\ ret'.silent /\ ret'.response.kind = "local")) =>
             /\ verificationInterval.tag = "timer"
             /\ now = verificationInterval.due
             /\ verificationInterval' = [tag |-> "timer", due |-> now + 24]
       /\ call'[TimerProc].pc \in {"idle", "verify"}
       /\ \A p \in Procs :
             (call'[p].pc = "verify" /\ call'[p].silent) <=>
                (p = TimerProc /\ call'[p].pc # "idle")
       /\ (verificationInterval' # verificationInterval
             /\ verificationInterval'.tag = "timer"
             /\ ~(verificationInterval.tag = "timer" /\ now = verificationInterval.due)) =>
             /\ verificationInterval'.due = now + 24
             /\ \A p \in Procs : call'[p].pc = "idle"
       /\ (verificationInterval.tag = "timer" /\ verificationInterval'.tag = "timer"
             /\ \E p \in Procs : call'[p].pc # "idle") =>
             verificationInterval'.due \in
                {verificationInterval.due, verificationInterval.due + 24}]_vars

\* C15 witness: the second periodic verification, 48 hours after
\* construction, is awaiting its answer and the timer is due again at 72.
C15_Witness ==
    /\ now = 48
    /\ call[TimerProc].pc = "verify" /\ call[TimerProc].silent
    /\ verificationInterval = [tag |-> "timer", due |-> 72]

\* C16: the license file never holds a partial record: whenever the file
\* changes, also through a crash in the middle of a save, it is either gone
\* or holds one complete encrypted record.
C16_NoPartialWrite ==
    [][(file' # file) =>
          \/ file' = NoFile
          \/ (file'.padded /\ file'.aes256cbc.json.tag = "rec")]_vars

\* C17: verifyLicense sends a request only when a record exists, the
\* hardware matches and the record has not expired (now < expiresAt);
\* otherwise it returns invalid at once, sends nothing and leaves the
\* record and the file as they are, and a hardware mismatch is reported
\* even when the record has expired as well.
C17_RequestOnlyAfterLocalChecks ==
    [][(\/ storedLicense = Null
        \/ storedLicense.hardwareId # getHardwareId(machine)
        \/ now >= ParseDate(storedLicense.licenseInfo.expires_at)) =>
          /\ \A p \in Procs : ~(call[p].pc = "idle" /\ call'[p].pc = "verify")
          /\ (ret'.op = "verify" /\ ret'.response.kind = "local") =>
                /\ ~ret'.valid /\ ~ret'.threw
                /\ UNCHANGED <<storedLicense, file, call>>
                /\ ret'.message =
                     IF storedLicense = Null THEN "No license found"
                     ELSE IF storedLicense.hardwareId # getHardwareId(machine)
                          THEN "License is bound to different hardware"
                          ELSE "License has expired"]_vars

\* C18: a verifyLicense whose request the authority accepted returns valid,
\* and leaves the record with the info from the answer, lastVerified equal
\* to the current time, the same key, hardwareId and activatedAt as before,
\* and the file holding that record.
C18_AcceptedVerifyRefreshesRecord ==
    [][(ret'.op = "verify" /\ ret'.response.kind = "success") =>
          /\ ret'.valid /\ ~ret'.threw
          /\ storedLicense' # Null
          /\ storedLicense'.licenseInfo = ret'.response.data
          /\ storedLicense'.lastVerified = [iso |-> now]
          /\ storedLicense'.key = storedLicense.key
          /\ storedLicense'.hardwareId = storedLicense.hardwareId
          /\ storedLicense'.activatedAt = storedLicense.activatedAt
          /\ loadStoredLicense(file') = storedLicense']_vars

\* C19 (as stated): whenever no call is in progress, the license file
\* exists exactly when the in-memory record is non-null, and then decrypts
\* to the in-memory record.
C19_FileExistsIffRecord ==
    (\A p \in Procs : call[p].pc = "idle") =>
        /\ (file # NoFile) <=> (storedLicense # Null)
        /\ (file # NoFile /\ storedLicense # Null) =>
              (file.padded /\ file.aes256cbc.json = storedLicense)

\* C19 (amended): whenever no call is in progress, the in-memory record is
\* what loading the license file yields: no record when the file is absent
\* or unreadable, and otherwise the record the file decrypts to, equal in
\* all fields.
C19_MemoryIsWhatTheFileLoads ==
    (\A p \in Procs : call[p].pc = "idle") =>
        IF file = NoFile \/ ~file.padded
        THEN storedLicense = Null
        ELSE storedLicense # Null /\ file.aes256cbc.json = storedLicense

\* C19 witness: a deactivateLicense has completed on an installation whose
\* license file does not decrypt; the file is still there, the record is null.
C19_Witness ==
    /\ \A p \in Procs : call[p].pc = "idle"
    /\ ret.op = "deactivate"
    /\ file = Garbage
    /\ storedLicense = Null

\* C20: the info in the record was returned by the authority for the
\* record's own key: the key named in the info is the key of the record.
C20_InfoBelongsToKey ==
    storedLicense # Null => storedLicense.licenseInfo.license_key = storedLicense.key

\* C21: a verifyLicense whose request got no answer leaves the record (info,
\* lastVerified and every other field) and the license file exactly as they
\* were, whether it grants offline grace or asks to reconnect; so grace does
\* not renew itself: such a call is valid only strictly before
\* lastVerified + 72 hours, measured on the record before and after the call.
C21_UnreachableChangesNothing ==
    [][(ret'.op = "verify" /\ ret'.response.kind = "noresponse") =>
          /\ storedLicense' = storedLicense
          /\ file' = file
          /\ ret'.valid =>
                /\ storedLicense' # Null
                /\ now < ParseDate(storedLicense.lastVerified) + 72
                /\ now < ParseDate(storedLicense'.lastVerified) + 72
                /\ ret'.info = storedLicense'.licenseInfo]_vars

\* C21 witness: offline grace was granted 71 hours after the last
\* verification and lastVerified still shows the old time.
C21_Witness ==
    /\ ret.op = "verify" /\ ret.response.kind = "noresponse" /\ ret.valid
    /\ storedLicense # Null
    /\ now - ParseDate(storedLicense.lastVerified) = 71
    /\ file # NoFile /\ file.padded /\ file.aes256cbc.json = storedLicense

\* C22: a record, in memory or on disk, comes into existence only through
\* a successful activateLicense: a step that ends a verifyLicense on an
\* installation without a record leaves it without record and with the same
\* file, also when the answer is a success for a request sent before a
\* deactivation; a record appears in memory only at the return of a
\* successful activation; and a license file appears where there was none
\* only in the save of an activation.
C22_OnlyActivationCreatesRecord ==
    [][/\ (ret'.op = "verify" /\ storedLicense = Null) =>
             (storedLicense' = Null /\ file' = file)
       /\ (storedLicense = Null /\ storedLicense' # Null) =>
             /\ ret'.op = "activate" /\ ret'.valid
             /\ ret'.response.kind = "success"
             /\ \E p \in Procs : call[p].pc = "activate" /\ call'[p].pc = "idle"
       /\ (file = NoFile /\ file' # NoFile) =>
             \E p \in Procs : call[p].pc = "activate" /\ call'[p].pc = "idle"]_vars

\* C22 witness: a verification sent before a deactivation was answered with
\* success after it, and there is neither a record nor a file.
C22_Witness ==
    /\ ret.op = "verify" /\ ret.response.kind = "success"
    /\ storedLicense = Null
    /\ file = NoFile

====
